---- MODULE Spec2Model ----
(***************************************************************************)
(* Model of the jobapplier dispatch pipeline: BatchEmailProcessor,         *)
(* EmailSender, the sent-log store and the mail transport.                 *)
(*                                                                         *)
(* Strings are sequences of one-character strings, so that lower(),        *)
(* strip() and split() are computed and not assumed.  None and the empty   *)
(* string are both the empty sequence: every use in the source tests them  *)
(* by truthiness (`x or ""`, `if job_gender:`, `if not raw_subject`).      *)
(***************************************************************************)
EXTENDS Integers, Sequences, FiniteSets, TLC

\* ------------------------------------------------------------------ bounds

\* Number of rows of email.accounts.
NumAccounts == 2
\* Number of events handed to process_job_application in one behaviour.
MaxEvents == 2
\* Number of upsets in one behaviour: failures of the store, the file system
\* and the mail transport, and changes made to the identity store.
MaxFaults == 1
\* Length of the batches handed directly to record_sent_batch (SpecRecord).
MaxBatch == 2
\* Number of direct record_sent_batch calls in one behaviour (SpecRecord).
MaxCalls == 2

Ids == 1..NumAccounts

\* Messages published on the channel in one behaviour.
MaxMessages == 2
\* Calls of AutoEmailer.stop in one behaviour.
NumStoppers == 2
\* Length of the keyword list and of the regex list of a block-list handed
\* directly to is_position_blocked (SpecBlocked).
MaxPatterns == 2
\* Number of pieces a subject_email handed to _prepare_subject is made of
\* (SpecSubject).
MaxTokens == 3
\* Iterations of the receive loop in which get_message returns no data
\* message, in one behaviour (SpecLoop).
MaxPolls == 1
Stoppers == 1..NumStoppers

\* ------------------------------------------------------------- str methods

Upper == <<"A", "B", "C", "D", "E", "F", "G", "H", "I", "J", "K", "L", "M",
           "N", "O", "P", "Q", "R", "S", "T", "U", "V", "W", "X", "Y", "Z">>

Lowercase == <<"a", "b", "c", "d", "e", "f", "g", "h", "i", "j", "k", "l", "m",
               "n", "o", "p", "q", "r", "s", "t", "u", "v", "w", "x", "y", "z">>

\* str.lower(), one character
LowerCh(c) ==
    IF \E i \in 1..Len(Upper) : Upper[i] = c
    THEN Lowercase[CHOOSE i \in 1..Len(Upper) : Upper[i] = c]
    ELSE c

\* str.lower()
Lower(s) == [i \in 1..Len(s) |-> LowerCh(s[i])]

IsSpace(c) == c = " "

RECURSIVE LStrip(_)
LStrip(s) == IF s # <<>> /\ IsSpace(Head(s)) THEN LStrip(Tail(s)) ELSE s

RECURSIVE RStrip(_)
RStrip(s) ==
    IF s # <<>> /\ IsSpace(s[Len(s)]) THEN RStrip(SubSeq(s, 1, Len(s) - 1)) ELSE s

\* str.strip()
Strip(s) == RStrip(LStrip(s))

\* " ".join(s.split()): runs of whitespace become one blank, none at the ends
RECURSIVE CollapseWs(_)
CollapseWs(s) ==
    LET t == LStrip(s) IN
    IF t = <<>> THEN <<>>
    ELSE LET n == CHOOSE k \in 1..Len(t) :
                     /\ \A j \in 1..k : ~IsSpace(t[j])
                     /\ (k = Len(t) \/ IsSpace(t[k + 1]))
             rest == CollapseWs(SubSeq(t, n + 1, Len(t)))
         IN  IF rest = <<>> THEN SubSeq(t, 1, n)
             ELSE SubSeq(t, 1, n) \o <<" ">> \o rest

\* `sub in s` for strings
Contains(sub, s) ==
    \E i \in 0..(Len(s) - Len(sub)) : SubSeq(s, i + 1, i + Len(sub)) = sub

\* the elements of a sequence
Range(s) == {s[i] : i \in 1..Len(s)}

\* every ordering of a finite set, as sequences without repetition
Orderings(S) ==
    {q \in [1..Cardinality(S) -> S] : \A i, j \in 1..Cardinality(S) : q[i] = q[j] => i = j}

\* ---------------------------------------------------------- config/const.py

FEMALE_KEYWORDS ==
    { <<"f", "e", "m", "a", "l", "e">>,
      <<"p", "e", "r", "e", "m", "p", "u", "a", "n">>,
      <<"w", "a", "n", "i", "t", "a">> }

MALE_KEYWORDS ==
    { <<"m", "a", "l", "e">>,
      <<"m", "e", "n">>,
      <<"l", "a", "k", "i", "-", "l", "a", "k", "i">>,
      <<"p", "r", "i", "a">> }

\* ------------------------------------------------------ the identity store

Male == <<"m", "a", "l", "e">>
Female == <<"f", "e", "m", "a", "l", "e">>

\* email.accounts.email of row i (EmailStr, unique per account)
AccountEmail(i) == <<"s", ToString(i)>>

\* email.account_profiles.gender of row i, as validate_gender stores it
ProfileGender(i) == IF i % 2 = 1 THEN Male ELSE Female

\* A regex of the block-list: one that does not compile, or a literal text,
\* which re.search finds as a substring.
BadRegex == [valid |-> FALSE, lit |-> <<"(">>]
LitRegex(t) == [valid |-> TRUE, lit |-> t]

\* email.account_data.blocked_job_position of row i
BlockedJobPosition(i) ==
    CASE i % 3 = 1 -> [keywords |-> << <<"G", "u", "r", "u">> >>,
                       regex_patterns |-> <<>>]
      [] i % 3 = 2 -> [keywords |-> <<>>,
                       regex_patterns |-> <<BadRegex, LitRegex(<<"m", "e", "d", "i", "s">>)>>]
      [] OTHER     -> [keywords |-> <<>>, regex_patterns |-> <<>>]

\* CompleteAccountInfo of row i
CompleteAccountInfo(i) ==
    [account |-> [id |-> i, email |-> AccountEmail(i)],
     profile |-> [gender |-> ProfileGender(i)],
     data    |-> [blocked_job_position |-> BlockedJobPosition(i)]]

\* --------------------------------------------------------------- job events

Str(s) == [is_str |-> TRUE, s |-> s]
NotStr == [is_str |-> FALSE, s |-> <<>>]
List(items) == [is_list |-> TRUE, items |-> items]

Dev == <<"d", "e", "v">>

JobEvent(email, position, gender) ==
    [email |-> email, position |-> position, gender_required |-> gender]

\* The events the bus delivers (extracted_data of a job_vacancy payload):
\* three spellings of two targets; a female-only vacancy with one target; a
\* position on the block-lists; no usable target.
Events ==
    { JobEvent(List(<<Str(<<"A", " ">>), Str(<<"a">>), Str(<<"b">>)>>), Dev, <<>>),
      JobEvent(List(<<Str(<<"b">>)>>), Dev, <<"W", "a", "n", "i", "t", "a">>),
      JobEvent(List(<<Str(<<"a">>)>>),
               <<" ", "G", "U", "R", "U", " ", " ", "m", "e", "d", "i", "s">>, <<>>),
      JobEvent(List(<<Str(<<" ">>), NotStr>>), Dev, <<>>) }

\* ------------------------------------------------------ helper/email_helper

\* EmailHelper.normalize_emails
normalize_emails(emails) ==
    { Strip(Lower(emails[k].s)) :
        k \in {j \in 1..Len(emails) :
                 emails[j].is_str /\ Strip(Lower(emails[j].s)) # <<>>} }

\* EmailHelper._validate_and_extract: ok = FALSE stands for the raised
\* EmailValidationError.
validate_and_extract(email_data) ==
    LET target == email_data.email
        normalized_targets == normalize_emails(target.items)
        position == Strip(email_data.position)
        bad == [ok |-> FALSE, targets |-> {}, position |-> <<>>, job_gender |-> <<>>]
    IN  IF target.items = <<>> \/ ~target.is_list THEN bad
        ELSE IF normalized_targets = {} THEN bad
        ELSE IF position = <<>> THEN bad
        ELSE [ok |-> TRUE, targets |-> normalized_targets, position |-> position,
              job_gender |-> email_data.gender_required]

\* ------------------------------------------------------- eligibility gates

\* Mutant of GenderMismatch: a keyword found anywhere in the text counts.
GenderMismatchSubstring(account_info, job_gender) ==
    /\ job_gender # <<>>
    /\ LET job_gender_lower == Lower(job_gender)
           user_gender == Lower(account_info.profile.gender)
       IN  \/ /\ user_gender = Male
              /\ \E w \in FEMALE_KEYWORDS : Contains(w, job_gender_lower)
           \/ /\ user_gender = Female
              /\ \E w \in MALE_KEYWORDS : Contains(w, job_gender_lower)

\* _should_send_email, rule 1
GenderMismatch(account_info, job_gender) ==
    /\ job_gender # <<>>
    /\ LET job_gender_lower == Lower(job_gender)
           user_gender == Lower(account_info.profile.gender)
       IN  \/ user_gender = Male /\ job_gender_lower \in FEMALE_KEYWORDS
           \/ user_gender = Female /\ job_gender_lower \in MALE_KEYWORDS

\* re.search(pattern, text): an invalid pattern raises re.error, which the
\* caller skips.
RegexMatches(pattern, text) == pattern.valid /\ Contains(pattern.lit, text)

\* Mutant of is_position_blocked: the first invalid pattern ends the loop
\* over the regex patterns.
is_position_blocked_break(account_data, position) ==
    LET position_lower == CollapseWs(Lower(position))
        blocked == account_data.blocked_job_position
    IN  \/ \E k \in 1..Len(blocked.keywords) :
              Contains(Lower(blocked.keywords[k]), position_lower)
        \/ \E k \in 1..Len(blocked.regex_patterns) :
              /\ RegexMatches(blocked.regex_patterns[k], position_lower)
              /\ \A j \in 1..k : blocked.regex_patterns[j].valid

\* AccountDataService.is_position_blocked
is_position_blocked(account_data, position) ==
    LET position_lower == CollapseWs(Lower(position))
        blocked == account_data.blocked_job_position
    IN  \/ \E k \in 1..Len(blocked.keywords) :
              Contains(Lower(blocked.keywords[k]), position_lower)
        \/ \E k \in 1..Len(blocked.regex_patterns) :
              RegexMatches(blocked.regex_patterns[k], position_lower)

\* -------------------------------------------------------------------- state

VARIABLES
    accounts,           \* identity store rows: is_active, has_profile, has_data
    sent_logs,          \* table email.sent_logs, rows in insertion order
    stats,              \* EmailLogStats
    template_cache,     \* EmailSender._template_cache: the accounts cached
    pc,                 \* where the subscriber task is
    clock,              \* events started so far; datetime.now() reads it
    email_data,         \* the event being processed
    complete_accounts,  \* process_job_application: the snapshot, ids ascending
    idx,                \* process_job_application: position of the for loop
    results,            \* process_job_application: the outcome map
    d,                  \* frame of send_email_for_account
    rec,                \* frame of record_sent_batch
    smtp_open,          \* transport connections connected and not quit
    outbox,             \* messages the mail transport accepted, in order
    env,                \* failures injected and store changes made so far
    h,                  \* values remembered for the properties
    app,                \* AutoEmailer and the module state of core.redis, core.db
    sub,                \* RedisSubscriber, its pubsub object and its task
    call                \* frame of a function called on its own: name, arguments, result

vars == <<accounts, sent_logs, stats, template_cache, pc, clock, email_data,
          complete_accounts, idx, results, d, rec, smtp_open, outbox, env, h,
          app, sub, call>>

\* EmailLogStats()
EmailLogStats ==
    [processed |-> 0, emails_sent |-> 0, failed |-> 0, unmatch_gender |-> 0,
     unrelevan_position |-> 0, duplicate |-> 0]

NoEvent == JobEvent(List(<<>>), <<>>, <<>>)

\* The frame of send_email_for_account: its locals, its return value, and what
\* the properties need of the call: the path it took (reason, seen), its
\* calls of _send_smtp and accepted messages, and the state it started from.
NoDispatch ==
    [id |-> 0, targets |-> <<>>, position |-> <<>>, job_gender |-> <<>>,
     msg |-> [sender |-> <<>>, to |-> <<>>], ret |-> FALSE,
     reason |-> "none", seen |-> {}, sends |-> 0, smtp_calls |-> 0,
     replay |-> FALSE, stats0 |-> EmailLogStats, logs0 |-> <<>>,
     outbox0 |-> 0, faults0 |-> 0]

NoRec ==
    [emails |-> <<>>, i |-> 0, count |-> 0, timestamp |-> 0, caller |-> "none",
     result |-> "none", before |-> <<>>]

\* Of the event being processed: the accounts active at the snapshot, the
\* sent log when the event arrived, whether the snapshot was fetched, the
\* accounts whose dispatch met a failure or a change of their own rows, and
\* the calls of _send_smtp made for each account.
NoHistory ==
    [active |-> {}, logs |-> <<>>, fetched |-> FALSE, upset |-> {},
     smtp_calls |-> [i \in Ids |-> 0]]

\* No function has been called on its own.
NoCall == [fn |-> "none", args |-> <<>>, ret |-> <<>>]

\* AutoEmailer(): main is where start() is, stop[c] where the c-th call of
\* stop() is, redis_client and pool are the globals of core.redis and core.db,
\* trace lists the teardown steps stop() has taken.
AutoEmailer ==
    [main |-> "init_redis", stopped |-> FALSE, shutdown_event |-> FALSE,
     stats_task |-> "none", redis_client |-> FALSE, pool |-> FALSE,
     stop |-> [c \in Stoppers |-> "none"], trace |-> <<>>]

\* RedisSubscriber(...): pubsub and task are None; inbox holds the messages
\* the pubsub object has received and get_message has not returned yet, log
\* the numbers of the messages _loop took, in the order it took them, with
\* what became of each; the counters count calls on the pubsub object, and
\* polls the iterations of _loop that got no data message.
RedisSubscriber ==
    [pubsub |-> "none", task |-> "none", inbox |-> <<>>, published |-> 0,
     log |-> <<>>, subscribe_calls |-> 0, unsubscribe_calls |-> 0,
     close_calls |-> 0, stop_pc |-> "none", stop_calls |-> 0, polls |-> 0]

Init ==
    /\ accounts = [i \in Ids |->
                     [is_active |-> TRUE, has_profile |-> TRUE, has_data |-> TRUE]]
    /\ sent_logs = <<>>
    /\ stats = EmailLogStats
    /\ template_cache = {}
    /\ pc = "idle"
    /\ clock = 0
    /\ email_data = NoEvent
    /\ complete_accounts = <<>>
    /\ idx = 0
    /\ results = <<>>
    /\ d = NoDispatch
    /\ rec = NoRec
    /\ smtp_open = 0
    /\ outbox = <<>>
    /\ env = [faults |-> 0, done |-> {}]
    /\ h = NoHistory
    /\ app = [AutoEmailer EXCEPT !.pool = TRUE]   \* after db.init_db_pool()
    /\ sub = RedisSubscriber
    /\ call = NoCall

\* The step succeeds (ok), or it fails and one more failure is spent.
Fault(ok) ==
    /\ ok \/ env.faults < MaxFaults
    /\ env' = [env EXCEPT !.faults = IF ok THEN @ ELSE @ + 1]

\* A store operation: with core.db.pool None, `pool.acquire()` raises.
StoreFault(ok) ==
    IF app.pool THEN Fault(ok) ELSE ~ok /\ UNCHANGED env

\* ---------------------------------------------------------- email.sent_logs

\* Mutant of check_already_sent: the query never finds a row.
check_never_sent(logs, target_email, sender_email) == FALSE

\* SELECT EXISTS(... WHERE target_email = $1 AND sender_email = $2)
check_already_sent(logs, target_email, sender_email) ==
    \E k \in 1..Len(logs) :
        logs[k].target_email = target_email /\ logs[k].sender_email = sender_email

\* Mutant of InsertSentLog: a plain INSERT, with no ON CONFLICT clause, into a
\* table that accepts the row.
InsertAlways(logs, target_email, sender_email, sent_at) ==
    [logs |-> Append(logs, [id |-> Len(logs) + 1,
                            target_email |-> target_email,
                            sender_email |-> sender_email,
                            sent_at |-> sent_at]),
     id |-> Len(logs) + 1]

\* INSERT ... ON CONFLICT (target_email, sender_email) DO NOTHING RETURNING id:
\* the table after the statement and the id returned (0 for no row).
InsertSentLog(logs, target_email, sender_email, sent_at) ==
    IF check_already_sent(logs, target_email, sender_email)
    THEN [logs |-> logs, id |-> 0]
    ELSE [logs |-> Append(logs, [id |-> Len(logs) + 1,
                                 target_email |-> target_email,
                                 sender_email |-> sender_email,
                                 sent_at |-> sent_at]),
          id |-> Len(logs) + 1]

\* ------------------------------------------------- send_email_for_account

\* The except clause of send_email_for_account that catches an exception of
\* class exc.  The first clause names the EmailValidationError class that
\* services/emailer.py defines itself.
ExceptClause(exc) ==
    CASE exc = "services.emailer.EmailValidationError" -> "EmailValidationError"
      [] exc \in {"SMTPAuthenticationError", "SMTPException"} -> "SMTPException"
      [] OTHER -> "Exception"

\* send_email_for_account returns val; why names the path taken.
Finish(val, why, st) ==
    /\ d' = [d EXCEPT !.ret = val, !.reason = why, !.seen = @ \cup {why}]
    /\ stats' = st
    /\ pc' = "returned"

\* An exception of class exc is raised inside the try block.
OnRaise(exc, why) ==
    Finish(FALSE, why,
           IF ExceptClause(exc) = "Exception"
           THEN [stats EXCEPT !.failed = @ + 1]
           ELSE stats)

\* get_complete_account_info(i) on the rows as they are
IsComplete(i) ==
    accounts[i].is_active /\ accounts[i].has_profile /\ accounts[i].has_data

\* Mutant of send_email_for_account_load: the blocked-position rule is
\* applied before the gender rule.
send_email_for_account_load_blocked_first ==
    /\ pc = "load"
    /\ \E db_ok \in BOOLEAN :
         /\ Fault(db_ok)
         /\ LET account_info == CompleteAccountInfo(d.id)
                v == validate_and_extract(email_data)
            IN  IF ~db_ok
                THEN OnRaise("PostgresError", "load_error")
                ELSE IF ~IsComplete(d.id)
                THEN Finish(FALSE, "not_found", stats)
                ELSE IF ~v.ok
                THEN OnRaise("helper.email_helper.EmailValidationError", "invalid")
                ELSE IF is_position_blocked(account_info.data, v.position)
                THEN Finish(FALSE, "blocked",
                            [stats EXCEPT !.unrelevan_position = @ + 1])
                ELSE IF GenderMismatch(account_info, v.job_gender)
                THEN Finish(FALSE, "gender",
                            [stats EXCEPT !.unmatch_gender = @ + 1])
                ELSE /\ \E order \in Orderings(v.targets) :
                          d' = [d EXCEPT !.targets = order,
                                         !.position = v.position,
                                         !.job_gender = v.job_gender]
                     /\ pc' = "dupcheck"
                     /\ UNCHANGED stats
    /\ UNCHANGED <<call, app, sub, accounts, sent_logs, template_cache, clock,
                   email_data, complete_accounts, idx, results, rec, smtp_open,
                   outbox, h>>

\* Steps 1 to 3 up to the first existence query: load the account, validate
\* the event, apply the gender and the blocked-position rule.
send_email_for_account_load ==
    /\ pc = "load"
    /\ \E db_ok \in BOOLEAN :
         /\ Fault(db_ok)
         /\ LET account_info == CompleteAccountInfo(d.id)
                v == validate_and_extract(email_data)
            IN  IF ~db_ok
                THEN OnRaise("PostgresError", "load_error")
                ELSE IF ~IsComplete(d.id)
                THEN Finish(FALSE, "not_found", stats)
                ELSE IF ~v.ok
                THEN OnRaise("helper.email_helper.EmailValidationError", "invalid")
                ELSE IF GenderMismatch(account_info, v.job_gender)
                THEN Finish(FALSE, "gender",
                            [stats EXCEPT !.unmatch_gender = @ + 1])
                ELSE IF is_position_blocked(account_info.data, v.position)
                THEN Finish(FALSE, "blocked",
                            [stats EXCEPT !.unrelevan_position = @ + 1])
                ELSE /\ \E order \in Orderings(v.targets) :
                          d' = [d EXCEPT !.targets = order,
                                         !.position = v.position,
                                         !.job_gender = v.job_gender]
                     /\ pc' = "dupcheck"
                     /\ UNCHANGED stats
    /\ UNCHANGED <<call, app, sub, accounts, sent_logs, template_cache, clock,
                   email_data, complete_accounts, idx, results, rec, smtp_open,
                   outbox, h>>

\* The targets whose existence query the loop of rule 3 reaches: those with
\* no already-sent target before them in the iteration order.
Queried(logs, targets, sender_email) ==
    {k \in 1..Len(targets) :
        \A j \in 1..(k - 1) : ~check_already_sent(logs, targets[j], sender_email)}

\* Mutant of should_send_email_duplicates: a failed existence query is logged
\* and the send goes on (fail-open).
should_send_email_duplicates_open ==
    /\ pc = "dupcheck"
    /\ LET sender_email == AccountEmail(d.id)
           reached == Queried(sent_logs, d.targets, sender_email)
       IN  \E fail_at \in {0} \cup reached :
             /\ Fault(fail_at = 0)
             /\ IF fail_at # 0
                THEN /\ d' = [d EXCEPT !.seen = @ \cup {"check_error"}]
                     /\ pc' = "prepare"
                     /\ UNCHANGED stats
                ELSE IF \E k \in reached :
                          check_already_sent(sent_logs, d.targets[k], sender_email)
                THEN Finish(FALSE, "duplicate",
                            [stats EXCEPT !.duplicate = @ + 1])
                ELSE pc' = "prepare" /\ UNCHANGED <<d, stats>>
    /\ UNCHANGED <<call, app, sub, accounts, sent_logs, template_cache, clock,
                   email_data, complete_accounts, idx, results, rec, smtp_open,
                   outbox, h>>

\* _should_send_email, rule 3: one existence query per target, in the set's
\* iteration order; the query of target fail_at raises (0: none does).
should_send_email_duplicates ==
    /\ pc = "dupcheck"
    /\ LET sender_email == AccountEmail(d.id)
           reached == Queried(sent_logs, d.targets, sender_email)
       IN  \E fail_at \in {0} \cup reached :
             /\ Fault(fail_at = 0)
             /\ IF fail_at # 0
                THEN Finish(FALSE, "check_error", stats)
                ELSE IF \E k \in reached :
                          check_already_sent(sent_logs, d.targets[k], sender_email)
                THEN Finish(FALSE, "duplicate",
                            [stats EXCEPT !.duplicate = @ + 1])
                ELSE pc' = "prepare" /\ UNCHANGED <<d, stats>>
    /\ UNCHANGED <<call, app, sub, accounts, sent_logs, template_cache, clock,
                   email_data, complete_accounts, idx, results, rec, smtp_open,
                   outbox, h>>

\* Mutant of build_message: the To header names the first target only.
build_message_first(account_info, target_emails) ==
    [sender |-> account_info.account.email, to |-> <<target_emails[1]>>]

\* _build_message: the To header names every target.
build_message(account_info, target_emails) ==
    [sender |-> account_info.account.email, to |-> target_emails]

\* Steps 4 to 6 up to smtp.connect(): load the template (cached after the
\* first load), build the message with the CV attached and call _send_smtp.
send_email_for_account_prepare ==
    /\ pc = "prepare"
    /\ \E template_exists, cv_exists \in BOOLEAN :
         /\ template_exists \/ d.id \notin template_cache
         /\ cv_exists \/ template_exists
         /\ Fault(template_exists /\ cv_exists)
         /\ IF ~template_exists
            THEN OnRaise("FileNotFoundError", "no_template")
                 /\ UNCHANGED template_cache
            ELSE /\ template_cache' = template_cache \cup {d.id}
                 /\ IF ~cv_exists
                    THEN OnRaise("FileNotFoundError", "no_cv")
                    ELSE /\ d' = [d EXCEPT
                                    !.msg = build_message(CompleteAccountInfo(d.id),
                                                          d.targets),
                                    !.smtp_calls = @ + 1]
                         /\ pc' = "smtp_connect"
                         /\ UNCHANGED stats
    /\ UNCHANGED <<call, app, sub, accounts, sent_logs, clock, email_data,
                   complete_accounts, idx, results, rec, smtp_open, outbox, h>>

\* _send_smtp: await smtp.connect()
send_smtp_connect ==
    /\ pc = "smtp_connect"
    /\ \E ok \in BOOLEAN :
         /\ Fault(ok)
         /\ IF ok
            THEN /\ smtp_open' = smtp_open + 1
                 /\ pc' = "smtp_login"
                 /\ UNCHANGED <<d, stats>>
            ELSE OnRaise("SMTPException", "connect_failed") /\ UNCHANGED smtp_open
    /\ UNCHANGED <<call, app, sub, accounts, sent_logs, template_cache, clock,
                   email_data, complete_accounts, idx, results, rec, outbox,
                   h>>

\* _send_smtp: await smtp.login(...)
send_smtp_login ==
    /\ pc = "smtp_login"
    /\ \E ok \in BOOLEAN :
         /\ Fault(ok)
         /\ IF ok
            THEN pc' = "smtp_send" /\ UNCHANGED <<d, stats>>
            ELSE OnRaise("SMTPAuthenticationError", "login_failed")
    /\ UNCHANGED <<call, app, sub, accounts, sent_logs, template_cache, clock,
                   email_data, complete_accounts, idx, results, rec, smtp_open,
                   outbox, h>>

\* Mutant of send_smtp_send_message: a failed send is swallowed inside
\* _send_smtp, which goes on to quit and returns normally.
send_smtp_send_message_swallow ==
    /\ pc = "smtp_send"
    /\ \E ok \in BOOLEAN :
         /\ Fault(ok)
         /\ IF ok
            THEN /\ outbox' = Append(outbox, [sender |-> d.msg.sender,
                                             to |-> Range(d.msg.to)])
                 /\ d' = [d EXCEPT !.sends = @ + 1, !.seen = @ \cup {"accepted"}]
            ELSE /\ d' = [d EXCEPT !.seen = @ \cup {"send_failed"}]
                 /\ UNCHANGED outbox
         /\ pc' = "smtp_quit"
         /\ UNCHANGED stats
    /\ UNCHANGED <<call, app, sub, accounts, sent_logs, template_cache, clock,
                   email_data, complete_accounts, idx, results, rec, smtp_open,
                   h>>

\* _send_smtp: await smtp.send_message(msg)
send_smtp_send_message ==
    /\ pc = "smtp_send"
    /\ \E ok \in BOOLEAN :
         /\ Fault(ok)
         /\ IF ok
            THEN /\ outbox' = Append(outbox, [sender |-> d.msg.sender,
                                             to |-> Range(d.msg.to)])
                 /\ d' = [d EXCEPT !.sends = @ + 1, !.seen = @ \cup {"accepted"}]
                 /\ pc' = "smtp_quit"
                 /\ UNCHANGED stats
            ELSE OnRaise("SMTPException", "send_failed") /\ UNCHANGED outbox
    /\ UNCHANGED <<call, app, sub, accounts, sent_logs, template_cache, clock,
                   email_data, complete_accounts, idx, results, rec, smtp_open,
                   h>>

\* _send_smtp: await smtp.quit(), and on its return step 7 up to the
\* acquisition of the transaction's connection.
send_smtp_quit ==
    /\ pc = "smtp_quit"
    /\ \E ok \in BOOLEAN :
         /\ Fault(ok)
         /\ IF ok
            THEN /\ smtp_open' = smtp_open - 1
                 /\ rec' = [NoRec EXCEPT
                              !.emails = [k \in 1..Len(d.targets) |->
                                            <<d.targets[k], AccountEmail(d.id)>>],
                              !.i = 1, !.timestamp = clock, !.caller = "dispatch",
                              !.before = sent_logs]
                 /\ pc' = "rec_begin"
                 /\ UNCHANGED <<d, stats>>
            ELSE OnRaise("SMTPException", "quit_failed")
                 /\ UNCHANGED <<smtp_open, rec>>
    /\ UNCHANGED <<call, app, sub, accounts, sent_logs, template_cache, clock,
                   email_data, complete_accounts, idx, results, outbox, h>>

\* ------------------------------------------------------- record_sent_batch

\* Mutant of RecordReturn: the sent counter grows by the length of the event's
\* raw email list.
RecordReturnRawCount ==
    IF rec.caller = "dispatch"
    THEN /\ Finish(TRUE, "sent",
                   [stats EXCEPT !.emails_sent = @ + Len(email_data.email.items)])
         /\ rec' = NoRec
    ELSE /\ rec' = [rec EXCEPT !.result = "returned"]
         /\ pc' = "idle"
         /\ UNCHANGED <<d, stats>>

\* record_sent_batch returns count to its caller.
RecordReturn ==
    IF rec.caller = "dispatch"
    THEN /\ Finish(TRUE, "sent", [stats EXCEPT !.emails_sent = @ + Len(d.targets)])
         /\ rec' = NoRec
    ELSE /\ rec' = [rec EXCEPT !.result = "returned"]
         /\ pc' = "idle"
         /\ UNCHANGED <<d, stats>>

\* record_sent_batch logs and re-raises a store error.
RecordRaise ==
    IF rec.caller = "dispatch"
    THEN /\ OnRaise("PostgresError", "record_failed")
         /\ rec' = NoRec
    ELSE /\ rec' = [rec EXCEPT !.result = "raised"]
         /\ pc' = "idle"
         /\ UNCHANGED <<d, stats>>

\* async with db.transaction(): a connection is acquired from the pool and a
\* transaction is opened on it.
record_sent_batch_begin ==
    /\ pc = "rec_begin"
    /\ \E ok \in BOOLEAN :
         /\ Fault(ok)
         /\ IF ok
            THEN pc' = "rec_insert" /\ UNCHANGED <<d, stats, rec>>
            ELSE RecordRaise
    /\ UNCHANGED <<call, app, sub, accounts, sent_logs, template_cache, clock,
                   email_data, complete_accounts, idx, results, smtp_open,
                   outbox, h>>

\* One db.fetchval(query, ...) of the for loop.  db.fetchval acquires its own
\* connection from the pool, so the statement commits by itself and is not
\* part of the transaction opened above.
record_sent_batch_insert ==
    /\ pc = "rec_insert"
    /\ rec.i <= Len(rec.emails)
    /\ \E ok \in BOOLEAN :
         /\ Fault(ok)
         /\ IF ok
            THEN LET r == InsertSentLog(sent_logs, rec.emails[rec.i][1],
                                        rec.emails[rec.i][2], rec.timestamp)
                 IN  /\ sent_logs' = r.logs
                     /\ rec' = [rec EXCEPT !.i = @ + 1,
                                           !.count = IF r.id # 0 THEN @ + 1 ELSE @]
                     /\ UNCHANGED <<pc, d, stats>>
            ELSE RecordRaise /\ UNCHANGED sent_logs
    /\ UNCHANGED <<call, app, sub, accounts, template_cache, clock, email_data,
                   complete_accounts, idx, results, smtp_open, outbox, h>>

\* The end of the async with block: the (empty) transaction commits and its
\* connection goes back to the pool.
record_sent_batch_commit ==
    /\ pc = "rec_insert"
    /\ rec.i > Len(rec.emails)
    /\ \E ok \in BOOLEAN :
         /\ Fault(ok)
         /\ IF ok THEN RecordReturn ELSE RecordRaise
    /\ UNCHANGED <<call, app, sub, accounts, sent_logs, template_cache, clock,
                   email_data, complete_accounts, idx, results, smtp_open,
                   outbox, h>>

\* ------------------------------------------------ process_job_application

\* The ids of S in ascending order (ORDER BY id).
Ascending(S) ==
    CHOOSE q \in Orderings(S) : \A i, j \in 1..Len(q) : i < j => q[i] < q[j]

\* process_job_application(e) up to its first await: count the event, start
\* with an empty outcome map.
process_job_application_enter(e) ==
    /\ pc = "idle"
    /\ clock < MaxEvents
    /\ clock' = clock + 1
    /\ stats' = [stats EXCEPT !.processed = @ + 1]
    /\ results' = <<>>
    /\ email_data' = e
    /\ h' = [NoHistory EXCEPT !.logs = sent_logs]
    /\ pc' = "fetch"
    /\ UNCHANGED <<accounts, sent_logs, template_cache, complete_accounts, idx, d,
                   rec, smtp_open, outbox, env, call>>

\* process_job_application is called with event e.
process_job_application(e) ==
    /\ process_job_application_enter(e)
    /\ UNCHANGED <<app, sub>>

\* await CompleteAccountService.get_all_active_complete_accounts(): the
\* active accounts whose profile and data rows exist, or a store error, which
\* the outer except turns into `return results`.
get_all_active_complete_accounts ==
    /\ pc = "fetch"
    /\ \E db_ok \in BOOLEAN :
         /\ StoreFault(db_ok)
         /\ h' = [h EXCEPT !.active = {i \in Ids : accounts[i].is_active},
                           !.fetched = db_ok]
         /\ IF db_ok
            THEN /\ complete_accounts' = Ascending({i \in Ids : IsComplete(i)})
                 /\ idx' = 1
                 /\ pc' = "loop"
            ELSE /\ pc' = "batch_done"
                 /\ UNCHANGED <<complete_accounts, idx>>
    /\ UNCHANGED <<call, app, sub, accounts, sent_logs, stats, template_cache,
                   clock, email_data, results, d, rec, smtp_open, outbox>>

\* Mutant of process_job_application_next: processed is counted once more for
\* every account dispatched.
process_job_application_next_counting ==
    /\ pc = "loop"
    /\ IF idx <= Len(complete_accounts)
       THEN /\ d' = [NoDispatch EXCEPT
                       !.id = complete_accounts[idx],
                       !.replay = <<complete_accounts[idx], email_data>> \in env.done,
                       !.stats0 = stats, !.logs0 = sent_logs,
                       !.outbox0 = Len(outbox), !.faults0 = env.faults]
            /\ stats' = [stats EXCEPT !.processed = @ + 1]
            /\ pc' = "load"
       ELSE /\ pc' = "batch_done"
            /\ UNCHANGED <<d, stats>>
    /\ UNCHANGED <<call, app, sub, accounts, sent_logs, template_cache, clock,
                   email_data, complete_accounts, idx, results, rec, smtp_open,
                   outbox, env, h>>

\* The head of `for account_info in complete_accounts`: call
\* send_email_for_account for the next account, or return results.
process_job_application_next ==
    /\ pc = "loop"
    /\ IF idx <= Len(complete_accounts)
       THEN /\ d' = [NoDispatch EXCEPT
                       !.id = complete_accounts[idx],
                       !.replay = <<complete_accounts[idx], email_data>> \in env.done,
                       !.stats0 = stats, !.logs0 = sent_logs,
                       !.outbox0 = Len(outbox), !.faults0 = env.faults]
            /\ pc' = "load"
       ELSE /\ pc' = "batch_done"
            /\ UNCHANGED d
    /\ UNCHANGED <<call, app, sub, accounts, sent_logs, stats, template_cache,
                   clock, email_data, complete_accounts, idx, results, rec,
                   smtp_open, outbox, env, h>>

\* Mutant of process_job_application_store: a failed dispatch ends the loop.
process_job_application_store_abort ==
    /\ pc = "returned"
    /\ results' = [x \in DOMAIN results \cup {AccountEmail(d.id)} |->
                     IF x = AccountEmail(d.id) THEN d.ret ELSE results[x]]
    /\ idx' = idx + 1
    /\ d' = NoDispatch
    /\ pc' = IF d.ret THEN "loop" ELSE "batch_done"
    /\ h' = [h EXCEPT
               !.upset = IF env.faults > d.faults0 THEN @ \cup {d.id} ELSE @,
               !.smtp_calls[d.id] = @ + d.smtp_calls]
    /\ env' = [env EXCEPT
                 !.done = IF d.ret THEN @ \cup {<<d.id, email_data>>} ELSE @]
    /\ UNCHANGED <<call, app, sub, accounts, sent_logs, stats, template_cache,
                   clock, email_data, complete_accounts, rec, smtp_open,
                   outbox>>

\* results[account_email] = success
process_job_application_store ==
    /\ pc = "returned"
    /\ results' = [x \in DOMAIN results \cup {AccountEmail(d.id)} |->
                     IF x = AccountEmail(d.id) THEN d.ret ELSE results[x]]
    /\ idx' = idx + 1
    /\ d' = NoDispatch
    /\ pc' = "loop"
    /\ h' = [h EXCEPT
               !.upset = IF env.faults > d.faults0 THEN @ \cup {d.id} ELSE @,
               !.smtp_calls[d.id] = @ + d.smtp_calls]
    /\ env' = [env EXCEPT
                 !.done = IF d.ret THEN @ \cup {<<d.id, email_data>>} ELSE @]
    /\ UNCHANGED <<call, app, sub, accounts, sent_logs, stats, template_cache,
                   clock, email_data, complete_accounts, rec, smtp_open,
                   outbox>>

\* process_job_application has returned results; _process_email logs the
\* failed accounts and the handler returns.
process_job_application_return ==
    /\ pc = "batch_done"
    /\ pc' = "idle"
    /\ results' = <<>>
    /\ complete_accounts' = <<>>
    /\ idx' = 0
    /\ email_data' = NoEvent
    /\ h' = NoHistory
    /\ UNCHANGED <<call, app, sub, accounts, sent_logs, stats, template_cache,
                   clock, d, rec, smtp_open, outbox, env>>

\* ---------------------------------------------------------- the environment

\* The identity store changes while the service runs: an account is switched
\* off, or its profile or data row is deleted.  The rows are read by the
\* snapshot and by the load of the account being dispatched only, so a change
\* at any other moment is the same change made right before the next of
\* these reads.
ChangeAccount(i, column) ==
    /\ pc = "fetch" \/ (pc = "load" /\ i = d.id)
    /\ env.faults < MaxFaults
    /\ accounts[i][column]
    /\ accounts' = [accounts EXCEPT ![i][column] = FALSE]
    /\ env' = [env EXCEPT !.faults = @ + 1]
    /\ UNCHANGED <<call, app, sub, sent_logs, stats, template_cache, pc, clock,
                   email_data, complete_accounts, idx, results, d, rec,
                   smtp_open, outbox, h>>

\* --------------------------------------------------------- specifications

Next ==
    \/ \E e \in Events : process_job_application(e)
    \/ get_all_active_complete_accounts
    \/ process_job_application_next
    \/ send_email_for_account_load
    \/ should_send_email_duplicates
    \/ send_email_for_account_prepare
    \/ send_smtp_connect
    \/ send_smtp_login
    \/ send_smtp_send_message
    \/ send_smtp_quit
    \/ record_sent_batch_begin
    \/ record_sent_batch_insert
    \/ record_sent_batch_commit
    \/ process_job_application_store
    \/ process_job_application_return
    \/ \E i \in Ids, column \in {"is_active", "has_profile", "has_data"} :
         ChangeAccount(i, column)

Spec == Init /\ [][Next]_vars

\* ------------------------------------------------ gender_required of events

\* Values of gender_required: none (None, a missing key and "" are all falsy
\* in `if job_gender:`), every keyword of const.py in some letter case, and
\* texts that contain a keyword, are contained in one, or carry blanks.
GenderRequired ==
    { <<>>,
      <<"f", "e", "m", "a", "l", "e">>,
      <<"F", "e", "m", "a", "l", "e">>,
      <<"F", "E", "M", "A", "L", "E">>,
      <<"p", "e", "r", "e", "m", "p", "u", "a", "n">>,
      <<"W", "a", "n", "i", "t", "a">>,
      <<"m", "a", "l", "e">>,
      <<"M", "A", "L", "E">>,
      <<"m", "e", "n">>,
      <<"l", "a", "k", "i", "-", "l", "a", "k", "i">>,
      <<"P", "r", "i", "a">>,
      <<"f", "e", "m", "a", "l", "e", "s">>,
      <<"w", "o", "m", "e", "n">>,
      <<"m", "a", "n">>,
      <<" ", "m", "a", "l", "e">>,
      <<"m", "a", "l", "e", " ">>,
      <<"l", "a", "k", "i">>,
      <<"f", "e">>,
      <<"p", "r", "i", "a", "/", "w", "a", "n", "i", "t", "a">>,
      <<"m", "a", "l", "e", " ", "o", "r", " ", "f", "e", "m", "a", "l", "e">> }

\* Events with one target, for every value of gender_required: with a
\* position no account blocks, and with one that the block-lists match.
GenderEvents ==
    { JobEvent(List(<<Str(<<"b">>)>>), position, g) :
        position \in {Dev, <<"G", "U", "R", "U", " ", "m", "e", "d", "i", "s">>},
        g \in GenderRequired }

\* One event of GenderEvents, dispatched to every account.
NextGender ==
    \/ \E e \in GenderEvents : clock = 0 /\ process_job_application(e)
    \/ get_all_active_complete_accounts
    \/ process_job_application_next
    \/ send_email_for_account_load
    \/ should_send_email_duplicates
    \/ send_email_for_account_prepare
    \/ send_smtp_connect
    \/ send_smtp_login
    \/ send_smtp_send_message
    \/ send_smtp_quit
    \/ record_sent_batch_begin
    \/ record_sent_batch_insert
    \/ record_sent_batch_commit
    \/ process_job_application_store
    \/ process_job_application_return

SpecGender == Init /\ [][NextGender]_vars

\* A direct call record_sent_batch(emails).
record_sent_batch(emails) ==
    /\ pc = "idle"
    /\ clock < MaxCalls
    /\ clock' = clock + 1
    /\ rec' = [NoRec EXCEPT !.emails = emails, !.i = 1, !.timestamp = clock + 1,
                            !.caller = "direct", !.before = sent_logs]
    /\ pc' = "rec_begin"
    /\ UNCHANGED <<call, app, sub, accounts, sent_logs, stats, template_cache,
                   email_data, complete_accounts, idx, results, d, smtp_open,
                   outbox, env, h>>

\* The (target, sender) pairs of the direct calls.
Pairs ==
    { <<(<<"a">>), AccountEmail(1)>>, <<(<<"b">>), AccountEmail(1)>>,
      <<(<<"a">>), AccountEmail(2)>> }

\* The lists of at most MaxBatch pairs.
Batches == UNION {[1..n -> Pairs] : n \in 0..MaxBatch}

NextRecord ==
    \/ \E emails \in Batches : record_sent_batch(emails)
    \/ record_sent_batch_begin
    \/ record_sent_batch_insert
    \/ record_sent_batch_commit

\* record_sent_batch on its own, called with arbitrary batches.
SpecRecord == Init /\ [][NextRecord]_vars

\* --------------------------------------------- events that meet every rule

\* Events with the same target: with and without a gender_required that
\* denies the male accounts, with a position no account blocks and with one
\* the block-lists match.  The second event to the same target meets the
\* sent log of the first.
RuleEvents ==
    { JobEvent(List(<<Str(<<"b">>)>>), position, g) :
        position \in {Dev, <<"G", "U", "R", "U", " ", "m", "e", "d", "i", "s">>},
        g \in {<<>>, <<"W", "a", "n", "i", "t", "a">>} }

NextRules ==
    \/ \E e \in RuleEvents : process_job_application(e)
    \/ get_all_active_complete_accounts
    \/ process_job_application_next
    \/ send_email_for_account_load
    \/ should_send_email_duplicates
    \/ send_email_for_account_prepare
    \/ send_smtp_connect
    \/ send_smtp_login
    \/ send_smtp_send_message
    \/ send_smtp_quit
    \/ record_sent_batch_begin
    \/ record_sent_batch_insert
    \/ record_sent_batch_commit
    \/ process_job_application_store
    \/ process_job_application_return

SpecRules == Init /\ [][NextRules]_vars

\* ------------------------------------------ functions called on their own

\* f(args) is called, once, and returns ret; the application is not running.
Call(fn, args, ret) ==
    /\ call.fn = "none"
    /\ call' = [fn |-> fn, args |-> args, ret |-> ret]
    /\ UNCHANGED <<accounts, sent_logs, stats, template_cache, pc, clock,
                   email_data, complete_accounts, idx, results, d, rec,
                   smtp_open, outbox, env, h, app, sub>>

\* The sequences over S of length n at most.
SeqUpTo(S, n) == UNION {[1..k -> S] : k \in 0..n}

\* Keywords of a block-list: in the letter case of the text, in another, and
\* with the blank a collapsed position has.
BlockedKeywords ==
    { <<"G", "u", "r", "u">>, <<"g", "u", "r", "u", " ", "l", "e", "s">>,
      <<"x">> }

\* Regex patterns of a block-list: one that does not compile, a literal, and a
\* literal in capitals, which the lower-cased position never holds.
BlockedRegexPatterns ==
    { BadRegex, LitRegex(<<"m", "e", "d", "i", "s">>), LitRegex(<<"G", "u", "r", "u">>) }

\* The blocked_job_position values handed to is_position_blocked.
BlockLists ==
    { [keywords |-> kw, regex_patterns |-> rx] :
        kw \in SeqUpTo(BlockedKeywords, MaxPatterns),
        rx \in SeqUpTo(BlockedRegexPatterns, MaxPatterns) }

\* The positions handed to is_position_blocked.
Positions ==
    { Dev,
      <<"G", "u", "r", "u">>,
      <<"G", "U", "R", "U", " ", " ", "L", "e", "s">>,
      <<" ", "T", "e", "n", "a", "g", "a", " ", " ", "M", "e", "d", "i", "s", " ">>,
      <<"g", "u", " ", "r", "u">>,
      <<"m", "e", "d", "i">> }

\* AccountDataService.is_position_blocked(account_data, position)
is_position_blocked_call(blocked, position) ==
    Call("is_position_blocked", <<blocked, position>>,
         is_position_blocked([blocked_job_position |-> blocked], position))

NextBlocked ==
    \E blocked \in BlockLists, position \in Positions :
        is_position_blocked_call(blocked, position)

SpecBlocked == Init /\ [][NextBlocked]_vars

\* ---------------------------------------------------------- clean_subject

Digits == <<"0", "1", "2", "3", "4", "5", "6", "7", "8", "9">>

\* \w of the re module
IsWord(c) == c = "_" \/ c \in Range(Upper) \cup Range(Lowercase) \cup Range(Digits)

\* [_\-\s]
IsSeparator(c) == c = "_" \/ c = "-" \/ IsSpace(c)

\* The length of the match of \{\{(\w+)\}\} at the head of s, 0 for none.
PlaceholderAt(s) ==
    IF Len(s) >= 5 /\ s[1] = "{" /\ s[2] = "{" /\ IsWord(s[3])
    THEN LET n == CHOOSE k \in 3..Len(s) :
                      /\ \A j \in 3..k : IsWord(s[j])
                      /\ (k = Len(s) \/ ~IsWord(s[k + 1]))
         IN  IF n + 2 <= Len(s) /\ s[n + 1] = "}" /\ s[n + 2] = "}"
             THEN n + 2 ELSE 0
    ELSE 0

\* Some {{placeholder}} stands in s.
HasPlaceholder(s) ==
    \E i \in 1..Len(s) : PlaceholderAt(SubSeq(s, i, Len(s))) # 0

\* re.sub(pattern, replace_placeholder, subject) with a dict as data: each
\* placeholder becomes str(data[key]), or "" for a key the dict lacks.
RECURSIVE SubPlaceholders(_, _)
SubPlaceholders(s, data) ==
    IF s = <<>> THEN <<>>
    ELSE LET n == PlaceholderAt(s) IN
         IF n = 0 THEN <<Head(s)>> \o SubPlaceholders(Tail(s), data)
         ELSE LET key == SubSeq(s, 3, n - 2)
                  value == IF key \in DOMAIN data.items THEN data.items[key] ELSE <<>>
              IN  value \o SubPlaceholders(SubSeq(s, n + 1, Len(s)), data)

\* re.sub(r'c{2,}', to, s) for the characters c of class: every run of two
\* or more becomes to, a single one stays.
RECURSIVE SqueezeRuns(_, _, _)
SqueezeRuns(s, class, to) ==
    IF s = <<>> THEN <<>>
    ELSE IF Head(s) \notin class THEN <<Head(s)>> \o SqueezeRuns(Tail(s), class, to)
    ELSE LET n == CHOOSE k \in 1..Len(s) :
                      /\ \A j \in 1..k : s[j] \in class
                      /\ (k = Len(s) \/ s[k + 1] \notin class)
             rest == SqueezeRuns(SubSeq(s, n + 1, Len(s)), class, to)
         IN  IF n = 1 THEN <<Head(s)>> \o rest ELSE to \o rest

\* \s, as far as the texts here have it
Whitespace == {" "}

\* re.sub(r'[_\-\s]+$', '', s) and re.sub(r'^[_\-\s]+', '', s)
RECURSIVE RStripSeparators(_)
RStripSeparators(s) ==
    IF s # <<>> /\ IsSeparator(s[Len(s)])
    THEN RStripSeparators(SubSeq(s, 1, Len(s) - 1)) ELSE s

RECURSIVE LStripSeparators(_)
LStripSeparators(s) ==
    IF s # <<>> /\ IsSeparator(Head(s)) THEN LStripSeparators(Tail(s)) ELSE s

\* The value of a call: the text returned, or the exception raised.
Returned(value) == [raised |-> "none", value |-> value]
Raised(exc) == [raised |-> exc, value |-> <<>>]

\* The data argument of clean_subject: a dict, or the str that
\* _prepare_subject passes, which has no get().
DictData(items) == [is_dict |-> TRUE, items |-> items, s |-> <<>>]
StrData(s) == [is_dict |-> FALSE, items |-> <<>>, s |-> s]

LamaranPekerjaan ==
    <<"L", "a", "m", "a", "r", "a", "n", " ", "P", "e", "k", "e", "r", "j", "a", "a", "n">>

\* EmailHelper.clean_subject(subject, data)
clean_subject(subject, data) ==
    IF ~data.is_dict /\ HasPlaceholder(subject)
    THEN Raised("AttributeError")          \* data.get(key) in replace_placeholder
    ELSE LET cleaned_subject ==
                 Strip(LStripSeparators(RStripSeparators(
                     SqueezeRuns(SqueezeRuns(SqueezeRuns(
                         SubPlaceholders(subject, data),
                         {"_"}, <<"_">>), {"-"}, <<"-">>), Whitespace, <<" ">>))))
         IN  IF cleaned_subject = <<>>
             THEN IF data.is_dict
                  THEN Returned(LamaranPekerjaan \o <<" ", "-", " ">>
                                \o (IF <<"n", "a", "m", "e">> \in DOMAIN data.items
                                    THEN data.items[<<"n", "a", "m", "e">>]
                                    ELSE <<"A", "p", "p", "l", "i", "c", "a", "n", "t">>))
                  ELSE Raised("AttributeError")   \* data.get("name", "Applicant")
             ELSE Returned(cleaned_subject)

\* EmailSender._prepare_subject(email_data, position, name), raw_subject
\* being email_data.get("subject_email")
prepare_subject(raw_subject, position, name) ==
    IF raw_subject = <<>>
    THEN IF position # <<>>
         THEN Returned(position \o <<" ", "-", " ">> \o name)
         ELSE Returned(LamaranPekerjaan \o <<" ", "-", " ">> \o name)
    ELSE clean_subject(raw_subject, StrData(name))

\* The pieces a subject_email is made of.
Tokens ==
    { <<"n", "a", "m", "a">>, <<"N", "A", "M", "A">>, <<"{", "{", "x", "}", "}">>,
      <<"d">>, <<" ">>, <<"_">>, <<"-">> }

RECURSIVE Concat(_)
Concat(ts) == IF ts = <<>> THEN <<>> ELSE Head(ts) \o Concat(Tail(ts))

\* The subject_email values of events, None included.
Subjects == { Concat(ts) : ts \in SeqUpTo(Tokens, MaxTokens) }

\* profile.name of the account
ProfileName == <<"A", "l">>

\* self._prepare_subject(email_data, position, account_info.profile.name)
prepare_subject_call(raw_subject, position) ==
    Call("_prepare_subject", <<raw_subject, position, ProfileName>>,
         prepare_subject(raw_subject, position, ProfileName))

NextSubject ==
    \E raw_subject \in Subjects, position \in {Dev} :
        prepare_subject_call(raw_subject, position)

SpecSubject == Init /\ [][NextSubject]_vars

\* ------------------------------------------------- payloads on the channel

\* The data of a message on the channel: text json.loads rejects, the text of
\* a JSON value that is not an object, or the text of a payload object with
\* its type, its extracted_data (absent, {} or present) and, when present,
\* the is_job_vacancy flag and the event fields.
BadJson ==
    [json_ok |-> FALSE, is_dict |-> FALSE, type |-> "", extracted_data |-> "absent",
     is_job_vacancy |-> FALSE, event |-> NoEvent]

NotDict == [BadJson EXCEPT !.json_ok = TRUE]

Payload(type, extracted_data, is_job_vacancy, event) ==
    [json_ok |-> TRUE, is_dict |-> TRUE, type |-> type,
     extracted_data |-> extracted_data, is_job_vacancy |-> is_job_vacancy,
     event |-> event]

\* A vacancy with three spellings of two targets.
Vacancy ==
    JobEvent(List(<<Str(<<"A", " ">>), Str(<<"a">>), Str(<<"b">>)>>), Dev, <<>>)

Payloads ==
    { BadJson,
      NotDict,
      Payload("chat", "present", TRUE, Vacancy),
      Payload("job_vacancy", "absent", FALSE, NoEvent),
      Payload("job_vacancy", "empty", FALSE, NoEvent),
      Payload("job_vacancy", "present", FALSE, Vacancy),
      Payload("job_vacancy", "present", TRUE, JobEvent(List(<<>>), Dev, <<>>)),
      Payload("job_vacancy", "present", TRUE, Vacancy) }

\* Mutant of handle_payload: the is_job_vacancy flag is not tested.
handle_payload_no_flag(payload) ==
    IF ~payload.is_dict THEN "raise"
    ELSE IF payload.type # "job_vacancy" THEN "return"
    ELSE IF payload.extracted_data # "present" THEN "return"
    ELSE IF payload.event.email.items = <<>> THEN "return"
    ELSE "process"

\* AutoEmailer._handle_payload with _process_email: "raise" when payload.get
\* fails, "process" when process_job_application is called, else "return".
handle_payload(payload) ==
    IF ~payload.is_dict THEN "raise"
    ELSE IF payload.type # "job_vacancy" THEN "return"
    ELSE IF payload.extracted_data # "present" THEN "return"
    ELSE IF ~payload.is_job_vacancy THEN "return"
    ELSE IF payload.event.email.items = <<>> THEN "return"
    ELSE "process"

\* Mutant of handle_message: a JSONDecodeError is not caught and reaches the
\* loop.
handle_message_raises(message) ==
    IF ~message.data.json_ok THEN "raised"
    ELSE CASE handle_payload(message.data) = "raise" -> "handler_error"
           [] handle_payload(message.data) = "return" -> "skipped"
           [] handle_payload(message.data) = "process" -> "process"

\* RedisSubscriber._handle_message up to the handler's first await: what
\* becomes of the message.  Both except clauses log and return.
handle_message(message) ==
    IF ~message.data.json_ok THEN "decode_error"
    ELSE CASE handle_payload(message.data) = "raise" -> "handler_error"
           [] handle_payload(message.data) = "return" -> "skipped"
           [] handle_payload(message.data) = "process" -> "process"

\* Mutant of get_message: the newest message is returned first.
get_message_newest(inbox) == inbox[Len(inbox)]

\* pubsub.get_message: the oldest message not yet returned.
get_message(inbox) == Head(inbox)

\* inbox without message m
Remove(inbox, m) == SelectSeq(inbox, LAMBDA x : x # m)

\* The variables of the dispatch pipeline.
dispatch_vars ==
    <<accounts, sent_logs, stats, template_cache, pc, clock, email_data,
      complete_accounts, idx, results, d, rec, smtp_open, outbox, env, h, call>>

\* The subscriber task is suspended in an await of the dispatch pipeline.
Suspended ==
    pc \in {"fetch", "load", "dupcheck", "smtp_connect", "smtp_login",
            "smtp_send", "smtp_quit", "rec_begin", "rec_insert", "rec_commit"}

\* ---------------------------------------------------- AutoEmailer.start

\* self.redis = await redis.init_redis(): a failed ping is raised.
start_init_redis ==
    /\ app.main = "init_redis"
    /\ \E ok \in BOOLEAN :
         app' = [app EXCEPT !.redis_client = ok,
                            !.main = IF ok THEN "init_db" ELSE "failed"]
    /\ UNCHANGED <<sub, dispatch_vars>>

\* await db.init_db_pool(): on failure it logs and returns None.
start_init_db_pool ==
    /\ app.main = "init_db"
    /\ \E ok \in BOOLEAN :
         app' = [app EXCEPT !.pool = ok, !.main = "subscribe"]
    /\ UNCHANGED <<sub, dispatch_vars>>

\* Mutant of subscriber_start: a failed subscribe is logged and the loop task
\* is created all the same.
subscriber_start_always_listening ==
    /\ app.main = "subscribe"
    /\ \E ok \in BOOLEAN :
         /\ sub' = [sub EXCEPT !.pubsub = IF ok THEN "subscribed" ELSE "created",
                               !.subscribe_calls = @ + 1,
                               !.task = "waiting"]
         /\ app' = [app EXCEPT !.main = "running", !.stats_task = "running"]
    /\ UNCHANGED dispatch_vars

\* await self.subscriber.start(), then the stats task is created.
subscriber_start ==
    /\ app.main = "subscribe"
    /\ \E ok \in BOOLEAN :
         IF ok
         THEN /\ sub' = [sub EXCEPT !.pubsub = "subscribed",
                                    !.subscribe_calls = @ + 1,
                                    !.task = "waiting"]
              /\ app' = [app EXCEPT !.main = "running", !.stats_task = "running"]
         ELSE /\ sub' = [sub EXCEPT !.pubsub = "created",
                                    !.subscribe_calls = @ + 1]
              /\ app' = [app EXCEPT !.main = "failed"]
    /\ UNCHANGED dispatch_vars

\* ------------------------------------------------ RedisSubscriber._loop

\* A publisher publishes a message on the channel.  The loop reads the inbox
\* in get_message only, so a message published at any other moment is the
\* same message published when the task next waits in get_message.
publish(data) ==
    /\ sub.pubsub = "subscribed"
    /\ sub.task = "waiting"
    /\ sub.published < MaxMessages
    /\ sub' = [sub EXCEPT
                 !.published = @ + 1,
                 !.inbox = Append(@, [n |-> sub.published + 1, data |-> data])]
    /\ UNCHANGED <<app, dispatch_vars>>

\* get_message returns a message and _handle_message(message) runs up to the
\* handler's first await, or to its end when there is none.
subscriber_loop_get_message ==
    /\ sub.task = "waiting"
    /\ ~app.shutdown_event
    /\ sub.inbox # <<>>
    /\ LET message == get_message(sub.inbox)
           outcome == handle_message(message)
       IN  /\ sub' = [sub EXCEPT
                        !.inbox = Remove(@, message),
                        !.log = Append(@, [n |-> message.n, outcome |-> outcome]),
                        !.task = CASE outcome = "process" -> "handling"
                                   [] outcome = "raised" -> "sleeping"
                                   [] OTHER -> "waiting"]
           /\ IF outcome = "process"
              THEN process_job_application_enter(message.data.event)
              ELSE UNCHANGED dispatch_vars
    /\ UNCHANGED app

\* wait_for times out, or get_message returns None or a message whose type
\* is not "message": the loop goes to its next iteration.
subscriber_loop_poll ==
    /\ sub.task = "waiting"
    /\ ~app.shutdown_event
    /\ sub.polls < MaxPolls
    /\ sub' = [sub EXCEPT !.polls = @ + 1]
    /\ UNCHANGED <<app, dispatch_vars>>

\* Mutant of subscriber_loop_error: the exception leaves the loop and ends
\* the task.
subscriber_loop_error_fatal ==
    /\ sub.task = "waiting"
    /\ ~app.shutdown_event
    /\ sub' = [sub EXCEPT !.task = "done"]
    /\ UNCHANGED <<app, dispatch_vars>>

\* get_message raises: `except Exception` logs, then await asyncio.sleep(1).
subscriber_loop_error ==
    /\ sub.task = "waiting"
    /\ ~app.shutdown_event
    /\ sub' = [sub EXCEPT !.task = "sleeping"]
    /\ UNCHANGED <<app, dispatch_vars>>

\* asyncio.sleep(1) returns; the while condition is tested again.
subscriber_loop_sleep ==
    /\ sub.task = "sleeping"
    /\ sub' = [sub EXCEPT !.task = IF app.shutdown_event THEN "done" ELSE "waiting"]
    /\ UNCHANGED <<app, dispatch_vars>>

\* process_job_application has returned to _process_email, which returns to
\* _handle_payload, _handle_message and the loop.
subscriber_handler_return ==
    /\ sub.task = "handling"
    /\ pc = "idle"
    /\ sub' = [sub EXCEPT
                 !.log[Len(sub.log)].outcome = "processed",
                 !.task = IF app.shutdown_event THEN "done" ELSE "waiting"]
    /\ UNCHANGED <<app, dispatch_vars>>

\* ------------------------------------ AutoEmailer.stop, RedisSubscriber.stop

\* RedisSubscriber.stop up to its first await that another task completes:
\* `if self.task and not self.task.done()`: cancel the task and await it.
\* The CancelledError is thrown into the task at the await where it is
\* suspended; no except clause on the way catches it (`except Exception`
\* does not, _loop re-raises it), so the task ends there.
subscriber_stop_call ==
    /\ pc = "idle" \/ Suspended
    /\ LET running == sub.task \in {"waiting", "handling", "sleeping"}
       IN  /\ sub' = [sub EXCEPT
                        !.stop_calls = @ + 1,
                        !.stop_pc = IF sub.pubsub # "none" THEN "unsubscribe"
                                                          ELSE "returned",
                        !.task = IF running THEN "cancelled" ELSE @,
                        !.log = IF sub.task = "handling"
                                THEN [@ EXCEPT ![Len(@)].outcome = "cancelled"]
                                ELSE @]
           /\ pc' = IF sub.task = "handling" THEN "cancelled" ELSE pc
    /\ UNCHANGED <<accounts, sent_logs, stats, template_cache, clock, email_data,
                   complete_accounts, idx, results, d, rec, smtp_open, outbox,
                   env, h, call>>

\* The teardown steps RedisSubscriber.stop takes when called.
SubscriberStopSteps ==
    IF sub.task \in {"waiting", "handling", "sleeping"}
    THEN <<"subscriber_stop", "task_cancel">> ELSE <<"subscriber_stop">>

\* Mutant of stop_enter: the stopped flag is not tested.
stop_enter_unguarded(c) ==
    /\ app.main = "running"
    /\ app.stop[c] = "none"
    /\ app' = [app EXCEPT
                 !.stopped = TRUE,
                 !.stop[c] = "await_stats",
                 !.stats_task = IF @ = "running" THEN "cancelling" ELSE @,
                 !.trace = Append(@, "stats_cancel")]
    /\ UNCHANGED <<sub, dispatch_vars>>

\* stop(): under the lock, return if stopped, else set stopped; then cancel
\* the stats task and await it.
stop_enter(c) ==
    /\ app.main = "running"
    /\ app.stop[c] = "none"
    /\ IF app.stopped
       THEN app' = [app EXCEPT !.stop[c] = "returned"]
       ELSE app' = [app EXCEPT
                      !.stopped = TRUE,
                      !.stop[c] = "await_stats",
                      !.stats_task = IF @ = "running" THEN "cancelling" ELSE @,
                      !.trace = Append(@, "stats_cancel")]
    /\ UNCHANGED <<sub, dispatch_vars>>

\* _log_stats_periodically: CancelledError in sleep(3600), break.
log_stats_cancelled ==
    /\ app.stats_task = "cancelling"
    /\ app' = [app EXCEPT !.stats_task = "done"]
    /\ UNCHANGED <<sub, dispatch_vars>>

\* The stats task has ended: self.shutdown_event.set(), then
\* await self.subscriber.stop().
stop_subscriber(c) ==
    /\ app.stop[c] = "await_stats"
    /\ app.stats_task = "done"
    /\ sub.stop_pc \in {"none", "returned"}
    /\ subscriber_stop_call
    /\ app' = [app EXCEPT
                 !.shutdown_event = TRUE,
                 !.stop[c] = "await_subscriber",
                 !.trace = @ \o <<"event_set">> \o SubscriberStopSteps]

\* RedisSubscriber.stop: await self.pubsub.unsubscribe(self.channel)
subscriber_stop_unsubscribe ==
    /\ sub.stop_pc = "unsubscribe"
    /\ sub' = [sub EXCEPT !.stop_pc = "close", !.unsubscribe_calls = @ + 1,
                          !.pubsub = "unsubscribed"]
    /\ app' = [app EXCEPT !.trace = Append(@, "unsubscribe")]
    /\ UNCHANGED dispatch_vars

\* RedisSubscriber.stop: self.pubsub.unsubscribe raises (the connection was
\* lost, say).  Nothing in RedisSubscriber.stop, AutoEmailer.stop or
\* __aexit__ catches it: it reaches the `except Exception` of main().
subscriber_stop_unsubscribe_raises ==
    /\ sub.stop_pc = "unsubscribe"
    /\ \E c \in Stoppers :
         /\ app.stop[c] = "await_subscriber"
         /\ app' = [app EXCEPT !.stop[c] = "raised", !.main = "exited"]
    /\ sub' = [sub EXCEPT !.stop_pc = "raised", !.unsubscribe_calls = @ + 1]
    /\ UNCHANGED dispatch_vars

\* Mutant of subscriber_stop_close: close() never returns.
subscriber_stop_close_hangs ==
    /\ sub.stop_pc = "close"
    /\ sub' = [sub EXCEPT !.close_calls = 1]
    /\ UNCHANGED <<app, dispatch_vars>>

\* RedisSubscriber.stop: await self.pubsub.close()
subscriber_stop_close ==
    /\ sub.stop_pc = "close"
    /\ sub' = [sub EXCEPT !.stop_pc = "returned", !.close_calls = @ + 1,
                          !.pubsub = "closed"]
    /\ app' = [app EXCEPT !.trace = Append(@, "pubsub_close")]
    /\ UNCHANGED dispatch_vars

\* subscriber.stop() has returned: await redis.close_redis()
stop_close_redis(c) ==
    /\ app.stop[c] = "await_subscriber"
    /\ sub.stop_pc = "returned"
    /\ app' = [app EXCEPT !.redis_client = FALSE,
                          !.stop[c] = "close_pool",
                          !.trace = Append(@, "close_redis")]
    /\ UNCHANGED <<sub, dispatch_vars>>

\* await db.close_pool()
stop_close_pool(c) ==
    /\ app.stop[c] = "close_pool"
    /\ app' = [app EXCEPT !.pool = FALSE,
                          !.stop[c] = "returned",
                          !.trace = Append(@, "close_pool")]
    /\ UNCHANGED <<sub, dispatch_vars>>

\* A second caller calls subscriber.stop() after a call of it has returned.
RedisSubscriber_stop ==
    /\ sub.stop_pc = "returned"
    /\ sub.stop_calls < MaxCalls
    /\ subscriber_stop_call
    /\ app' = [app EXCEPT !.trace = @ \o SubscriberStopSteps]

\* AutoEmailer before start().  The failures of the store and of the mail
\* transport are the subject of Spec; here none is left to inject.
InitApp ==
    /\ accounts = [i \in Ids |->
                     [is_active |-> TRUE, has_profile |-> TRUE, has_data |-> TRUE]]
    /\ sent_logs = <<>>
    /\ stats = EmailLogStats
    /\ template_cache = {}
    /\ pc = "idle"
    /\ clock = 0
    /\ email_data = NoEvent
    /\ complete_accounts = <<>>
    /\ idx = 0
    /\ results = <<>>
    /\ d = NoDispatch
    /\ rec = NoRec
    /\ smtp_open = 0
    /\ outbox = <<>>
    /\ env = [faults |-> MaxFaults, done |-> {}]
    /\ h = NoHistory
    /\ app = AutoEmailer
    /\ sub = RedisSubscriber
    /\ call = NoCall

NextApp ==
    \/ start_init_redis
    \/ start_init_db_pool
    \/ subscriber_start
    \/ \E data \in Payloads : publish(data)
    \/ subscriber_loop_get_message
    \/ subscriber_loop_error
    \/ subscriber_loop_sleep
    \/ subscriber_handler_return
    \/ get_all_active_complete_accounts
    \/ process_job_application_next
    \/ send_email_for_account_load
    \/ should_send_email_duplicates
    \/ send_email_for_account_prepare
    \/ send_smtp_connect
    \/ send_smtp_login
    \/ send_smtp_send_message
    \/ send_smtp_quit
    \/ record_sent_batch_begin
    \/ record_sent_batch_insert
    \/ record_sent_batch_commit
    \/ process_job_application_store
    \/ process_job_application_return
    \/ \E c \in Stoppers : stop_enter(c)
    \/ log_stats_cancelled
    \/ \E c \in Stoppers : stop_subscriber(c)
    \/ subscriber_stop_unsubscribe
    \/ subscriber_stop_close
    \/ \E c \in Stoppers : stop_close_redis(c)
    \/ \E c \in Stoppers : stop_close_pool(c)

\* The service: start, the receive loop with the dispatch pipeline, stop.
SpecApp == InitApp /\ [][NextApp]_vars

\* The service, and callers that call subscriber.stop() again.
SpecSubscriber == InitApp /\ [][NextApp \/ RedisSubscriber_stop]_vars

\* The service with one call of stop(), with messages that are a vacancy or
\* do not decode, and with iterations of the loop that get no message.
NextLoop ==
    \/ start_init_redis
    \/ start_init_db_pool
    \/ subscriber_start
    \/ \E data \in {BadJson, Payload("job_vacancy", "present", TRUE, Vacancy)} :
         publish(data)
    \/ subscriber_loop_get_message
    \/ subscriber_loop_poll
    \/ subscriber_loop_error
    \/ subscriber_loop_sleep
    \/ subscriber_handler_return
    \/ get_all_active_complete_accounts
    \/ process_job_application_next
    \/ send_email_for_account_load
    \/ should_send_email_duplicates
    \/ send_email_for_account_prepare
    \/ send_smtp_connect
    \/ send_smtp_login
    \/ send_smtp_send_message
    \/ send_smtp_quit
    \/ record_sent_batch_begin
    \/ record_sent_batch_insert
    \/ record_sent_batch_commit
    \/ process_job_application_store
    \/ process_job_application_return
    \/ stop_enter(1)
    \/ log_stats_cancelled
    \/ stop_subscriber(1)
    \/ subscriber_stop_unsubscribe
    \/ subscriber_stop_close
    \/ stop_close_redis(1)
    \/ stop_close_pool(1)

SpecLoop == InitApp /\ [][NextLoop]_vars

\* The event loop runs every task that is ready: the awaits of stop() on the
\* pubsub object return, and stop() goes on.
SpecLoopFair ==
    /\ SpecLoop
    /\ WF_vars(subscriber_stop_unsubscribe)
    /\ WF_vars(subscriber_stop_close)

\* The service with one call of stop(), in which unsubscribe may fail.
SpecTeardown == InitApp /\ [][NextLoop \/ subscriber_stop_unsubscribe_raises]_vars

\* ------------------------------------------------------------- properties

\* A call of send_email_for_account is in progress or has just returned.
InDispatch == d.id # 0

\* The normalized target set of the event being processed.
Targets == validate_and_extract(email_data).targets

\* C1: for every (target, sender) pair, the mail transport accepts at most one
\* message from that sender addressed to that target, in every execution,
\* failures of the store and of the transport included.
AtMostOnceDelivery ==
    \A j, k \in 1..Len(outbox) :
        (outbox[j].sender = outbox[k].sender /\ outbox[j].to \cap outbox[k].to # {})
            => j = k

\* Account i passes validation and the three rules on the sent log as it was
\* when the event arrived.
EligibleAtArrival(i) ==
    LET v == validate_and_extract(email_data)
    IN  /\ v.ok
        /\ ~GenderMismatch(CompleteAccountInfo(i), v.job_gender)
        /\ ~is_position_blocked(CompleteAccountInfo(i).data, v.position)
        /\ \A t \in v.targets : ~check_already_sent(h.logs, t, AccountEmail(i))

\* C2: when process_job_application returns, every account of the snapshot has
\* an outcome, and the outcome of each is its own: false if its own dispatch
\* met a failure, and otherwise its own eligibility, whatever happened to the
\* dispatches of the other accounts.
FailureIsolation ==
    (pc = "batch_done" /\ h.fetched) =>
        /\ DOMAIN results = {AccountEmail(i) : i \in Range(complete_accounts)}
        /\ \A i \in Range(complete_accounts) :
              results[AccountEmail(i)] = (i \notin h.upset /\ EligibleAtArrival(i))

\* C2 witness: an account's dispatch failed and an account after it succeeded.
FailureIsolationWitness ==
    /\ pc = "batch_done"
    /\ \E i, j \in Range(complete_accounts) :
          /\ i < j
          /\ i \in h.upset
          /\ ~results[AccountEmail(i)]
          /\ results[AccountEmail(j)]

\* C3: the map process_job_application returns has exactly one entry for each
\* account that was active at snapshot time, also for an account whose
\* profile or data row is missing and when loading the accounts raises.
OutcomeMapComplete ==
    pc = "batch_done" => DOMAIN results = {AccountEmail(i) : i \in h.active}

\* C4 as claimed: a dispatch for an account and an event for which an earlier
\* dispatch returned true returns false without a send, leaves emails_sent
\* unchanged and adds exactly 1 to duplicate.
ReplayCountedAsDuplicate ==
    (pc = "returned" /\ d.replay) =>
        /\ ~d.ret
        /\ d.smtp_calls = 0 /\ Len(outbox) = d.outbox0
        /\ stats.emails_sent = d.stats0.emails_sent
        /\ stats.duplicate = d.stats0.duplicate + 1

\* C4 as amended: such a dispatch returns false without a send and leaves
\* emails_sent unchanged; it adds exactly 1 to duplicate unless the account
\* could not be loaded (store error, account switched off, row missing) or
\* the existence query raised, and then duplicate is unchanged.
ReplayDenied ==
    (pc = "returned" /\ d.replay) =>
        /\ ~d.ret
        /\ d.smtp_calls = 0 /\ Len(outbox) = d.outbox0
        /\ stats.emails_sent = d.stats0.emails_sent
        /\ d.reason \in {"duplicate", "load_error", "not_found", "check_error"}
        /\ stats.duplicate =
              d.stats0.duplicate + (IF d.reason = "duplicate" THEN 1 ELSE 0)

\* C4 witness: a replayed event was denied as a duplicate.
ReplayDeniedWitness ==
    /\ pc = "returned"
    /\ d.replay
    /\ d.reason = "duplicate"
    /\ stats.duplicate = d.stats0.duplicate + 1

\* C5: a dispatch that starts with a sent record for any of its targets
\* returns false and sends nothing; and every message a dispatch sends is
\* addressed to the whole normalized target set.
AllOrNone ==
    InDispatch =>
        /\ (\E t \in Targets : check_already_sent(d.logs0, t, AccountEmail(d.id)))
              => /\ Len(outbox) = d.outbox0
                 /\ d.smtp_calls = 0
                 /\ pc = "returned" => ~d.ret
        /\ \A k \in (d.outbox0 + 1)..Len(outbox) :
              /\ outbox[k].sender = AccountEmail(d.id)
              /\ outbox[k].to = Targets

\* C5 witness: one of two targets had a record and the dispatch was denied;
\* and a message went to two targets.
AllOrNoneWitness ==
    \/ /\ pc = "returned"
       /\ Cardinality(Targets) = 2
       /\ \E t, u \in Targets :
             /\ check_already_sent(d.logs0, t, AccountEmail(d.id))
             /\ ~check_already_sent(d.logs0, u, AccountEmail(d.id))
       /\ ~d.ret
    \/ /\ InDispatch
       /\ Len(outbox) > d.outbox0
       /\ Cardinality(outbox[Len(outbox)].to) = 2

\* C6: when the transport accepted the message and record_sent_batch then
\* fails, the dispatch still returns true and the targets are counted in
\* emails_sent.
RecordFailureKeepsDelivery ==
    (pc = "returned" /\ "record_failed" \in d.seen) =>
        /\ d.ret
        /\ stats.emails_sent = d.stats0.emails_sent + Cardinality(Targets)

\* C7: when send_email_for_account returns true, it made exactly one send, a
\* sent record exists for every normalized target with the account's email as
\* sender, and emails_sent grew by the number of normalized targets.
SuccessfulDispatch ==
    (pc = "returned" /\ d.ret) =>
        /\ d.sends = 1 /\ d.smtp_calls = 1
        /\ Len(outbox) = d.outbox0 + 1
        /\ \A t \in Targets : check_already_sent(sent_logs, t, AccountEmail(d.id))
        /\ stats.emails_sent = d.stats0.emails_sent + Cardinality(Targets)

\* C7 witness: a dispatch returned true for an event whose three addresses
\* are two after normalization.
SuccessfulDispatchWitness ==
    /\ pc = "returned"
    /\ d.ret
    /\ Len(email_data.email.items) = 3
    /\ Cardinality(Targets) = 2

\* C8: once an existence query has failed, the dispatch has returned false
\* with no call of the transport and no sent record inserted.
FailClosed ==
    (InDispatch /\ "check_error" \in d.seen) =>
        /\ pc = "returned" /\ ~d.ret
        /\ d.smtp_calls = 0 /\ d.sends = 0 /\ Len(outbox) = d.outbox0
        /\ sent_logs = d.logs0

\* C8 witness: an existence query failed in a dispatch with two targets, and
\* the dispatch returned.
FailClosedWitness ==
    /\ pc = "returned"
    /\ "check_error" \in d.seen
    /\ Len(d.targets) = 2

\* No two rows of the table have the same (target_email, sender_email).
SentLogUnique ==
    \A j, k \in 1..Len(sent_logs) :
        (/\ sent_logs[j].target_email = sent_logs[k].target_email
         /\ sent_logs[j].sender_email = sent_logs[k].sender_email) => j = k

\* A step leaves every row of the table in place and as it was.
AppendOnly ==
    /\ Len(sent_logs') >= Len(sent_logs)
    /\ \A k \in 1..Len(sent_logs) : sent_logs'[k] = sent_logs[k]

\* An insert statement, run without a store failure, for a pair the table
\* already holds leaves the table as it is, raises nothing and counts nothing.
ConflictIsNoOp ==
    (/\ pc = "rec_insert"
     /\ rec.i <= Len(rec.emails)
     /\ check_already_sent(sent_logs, rec.emails[rec.i][1], rec.emails[rec.i][2])
     /\ env'.faults = env.faults
     /\ rec' # rec)
        => /\ sent_logs' = sent_logs
           /\ rec'.result = "none"
           /\ rec'.i = rec.i + 1
           /\ rec'.count = rec.count

\* A call that returns reports the number of its pairs that the table did not
\* hold before: 0 for a pair already stored.
CountsNewRows ==
    (rec.caller = "direct" /\ rec.result = "returned") =>
        rec.count = Cardinality({q \in Range(rec.emails) :
                                   ~check_already_sent(rec.before, q[1], q[2])})

\* C9: after any sequence of record_sent_batch calls the table holds at most
\* one row per (target_email, sender_email); rows are never changed or
\* removed; and an insert of a pair already stored changes nothing, raises
\* nothing and adds 0 to the count the call returns.
RecordIdempotent ==
    /\ []SentLogUnique
    /\ []CountsNewRows
    /\ [][AppendOnly /\ ConflictIsNoOp]_vars

\* C9 witness: a call with pairs that were all stored already returned 0 and
\* left the table as it was.
RecordIdempotentWitness ==
    /\ rec.caller = "direct"
    /\ rec.result = "returned"
    /\ Len(rec.emails) > 0
    /\ rec.before # <<>>
    /\ rec.count = 0
    /\ sent_logs = rec.before

\* C10: once connect, login or send has failed, the dispatch has returned
\* false with no sent record inserted and emails_sent unchanged; and within
\* one event _send_smtp is called at most once for an account.
TransportFailureTerminal ==
    /\ (InDispatch
        /\ d.seen \cap {"connect_failed", "login_failed", "send_failed"} # {})
          => /\ pc = "returned" /\ ~d.ret
             /\ sent_logs = d.logs0
             /\ stats.emails_sent = d.stats0.emails_sent
    /\ \A i \in Ids :
          h.smtp_calls[i] + (IF d.id = i THEN d.smtp_calls ELSE 0) <= 1

\* C10 witness: the send failed after connect and login succeeded, for the
\* second account of an event.
TransportFailureTerminalWitness ==
    /\ pc = "returned"
    /\ "send_failed" \in d.seen
    /\ idx = 2

\* C12: stats.processed is the number of events handed to
\* process_job_application: one more for each event, whatever the number of
\* active accounts and of true and false outcomes, and also when fetching
\* the accounts fails; never one more for an account.
ProcessedOncePerEvent == stats.processed = clock

\* C12 witness: the second event ended with a true and a false outcome, and
\* processed is 2.
ProcessedOncePerEventWitness ==
    /\ pc = "batch_done"
    /\ clock = 2
    /\ stats.processed = 2
    /\ \E x, y \in DOMAIN results : results[x] /\ ~results[y]

\* The message _loop takes in this step: the message of the inbox whose
\* number the log gets.
Taken(m) ==
    /\ Len(sub'.log) = Len(sub.log) + 1
    /\ m.n = sub'.log[Len(sub'.log)].n

\* The payload decodes to an object that fails the shape gate.
FailsShapeGate(p) ==
    /\ p.json_ok /\ p.is_dict
    /\ \/ p.type # "job_vacancy"
       \/ p.extracted_data # "present"
       \/ ~p.is_job_vacancy
       \/ p.event.email.items = <<>>

\* C11: when the loop takes a message whose payload has a type other than
\* "job_vacancy", or no or an empty extracted_data, or a false is_job_vacancy,
\* or an empty email, process_job_application is not called: no account is
\* fetched, nothing is sent and no counter of stats changes, processed
\* included.
ShapeGate ==
    [][\A m \in Range(sub.inbox) :
          (Taken(m) /\ FailsShapeGate(m.data)) =>
              /\ UNCHANGED <<stats, pc, clock, h, outbox, sent_logs, d>>
              /\ sub'.log[Len(sub'.log)].outcome = "skipped"]_vars

\* C11 witness: a message was skipped and the next one was handed to
\* process_job_application, which is the only event counted.
ShapeGateWitness ==
    /\ Len(sub.log) >= 2
    /\ sub.log[1].outcome = "skipped"
    /\ sub.log[2].outcome = "process"
    /\ stats.processed = 1

\* C13: the loop takes the messages in the order the pubsub object received
\* them; at most one message is being handled, it is the last one taken, and
\* the dispatch pipeline runs only inside that handler: the next message is
\* taken after the handler, with all its dispatches, has returned.
Serialized ==
    /\ \A k \in 1..Len(sub.log) : sub.log[k].n = k
    /\ \A k \in 1..Len(sub.log) :
          sub.log[k].outcome = "process" => k = Len(sub.log) /\ sub.task = "handling"
    /\ pc \notin {"idle", "cancelled"} =>
          sub.task = "handling" /\ sub.log[Len(sub.log)].outcome = "process"

\* C13 witness: a message waits in the inbox while the handler of the message
\* before it is sending.
SerializedWitness ==
    /\ sub.task = "handling"
    /\ pc = "smtp_send"
    /\ sub.inbox # <<>>

\* C14: when the loop takes a message that json.loads rejects, or one whose
\* handler raises, the message is dropped: no counter changes, nothing
\* reaches the loop's except clause, and the task waits for the next message.
FailureContained ==
    [][\A m \in Range(sub.inbox) :
          (Taken(m) /\ (~m.data.json_ok \/ ~m.data.is_dict)) =>
              /\ UNCHANGED <<stats, pc, clock, h, outbox, sent_logs, d>>
              /\ sub'.log[Len(sub'.log)].outcome =
                    IF m.data.json_ok THEN "handler_error" ELSE "decode_error"
              /\ sub'.task = "waiting"]_vars

\* C14 witness: after a message that did not decode and one whose handler
\* raised, or either of them, the next message was handled to its end.
FailureContainedWitness ==
    /\ Len(sub.log) >= 2
    /\ sub.log[1].outcome \in {"decode_error", "handler_error"}
    /\ sub.log[2].outcome = "processed"

\* C15: when the subscriber task has ended, no dispatch is left unfinished:
\* a dispatch that had started when the shutdown began has run to its end,
\* with its sent records and its counter update; in particular none is left
\* between the accepted message and the record.
InFlightDispatchCompletes ==
    sub.task = "cancelled" => d.id = 0

\* The order of the teardown steps as claimed: the store pool is closed
\* before the bus connection.
ClaimedTeardown ==
    <<"stats_cancel", "event_set", "subscriber_stop", "task_cancel",
      "unsubscribe", "pubsub_close", "close_pool", "close_redis">>

\* C16: the teardown steps of AutoEmailer.stop happen in this order: stats
\* task cancelled and awaited, shutdown signal set, subscriber stopped (task
\* cancelled, unsubscribe, pubsub closed), store pool closed, bus connection
\* closed; and no connection is closed while the subscriber task runs.
ShutdownOrder ==
    /\ Len(app.trace) <= Len(ClaimedTeardown)
    /\ \A k \in 1..Len(app.trace) : app.trace[k] = ClaimedTeardown[k]
    /\ sub.task \in {"waiting", "handling", "sleeping"} =>
          \A k \in 1..Len(app.trace) :
              app.trace[k] \notin {"pubsub_close", "close_pool", "close_redis"}

\* The teardown steps in the order stop() takes them.
Teardown ==
    <<"stats_cancel", "event_set", "subscriber_stop", "task_cancel",
      "unsubscribe", "pubsub_close", "close_redis", "close_pool">>

\* No teardown step was taken twice; one call at most is at work; and when
\* every call has returned each step was taken once.
TeardownOnce ==
    /\ \A j, k \in 1..Len(app.trace) : app.trace[j] = app.trace[k] => j = k
    /\ Cardinality({c \in Stoppers : app.stop[c] \notin {"none", "returned"}}) <= 1
    /\ ((\E c \in Stoppers : app.stop[c] = "returned")
        /\ (\A c \in Stoppers : app.stop[c] \in {"none", "returned"}))
          => app.trace = Teardown

\* A call of stop() after the first returns at once and changes nothing.
LaterStopIsNoOp ==
    \A c \in Stoppers :
        (app.stopped /\ app.stop[c] = "none" /\ app'.stop[c] # "none") =>
            /\ app' = [app EXCEPT !.stop[c] = "returned"]
            /\ UNCHANGED <<sub, dispatch_vars>>

SubscriberStopIdempotent ==
    /\ sub.unsubscribe_calls <= 1
    /\ sub.close_calls <= 1
    /\ sub.stop_calls >= 2 => sub.stop_pc = "returned" /\ sub.pubsub = "closed"

\* C19: subscribe is called once at most; when it fails start() raises, no
\* loop task exists and no message is ever handled; and a loop task exists
\* only with a pubsub object that was subscribed.
SubscribeFailureFatal ==
    /\ sub.subscribe_calls <= 1
    /\ sub.pubsub = "created" =>
          /\ app.main = "failed"
          /\ sub.task = "none"
          /\ sub.log = <<>>
          /\ stats = EmailLogStats
    /\ sub.task # "none" => sub.pubsub \in {"subscribed", "unsubscribed", "closed"}
    /\ sub.log # <<>> => sub.task # "none"

\* C19 witness: subscribe failed and start() raised.
SubscribeFailureFatalWitness ==
    /\ sub.pubsub = "created"
    /\ sub.subscribe_calls = 1
    /\ app.main = "failed"

\* The dispatch has loaded its account and validated the event.
PastValidation ==
    /\ InDispatch
    /\ pc # "load"
    /\ d.seen \cap {"load_error", "not_found", "invalid"} = {}

\* The gender rule as claimed, for account i and the event being processed.
GenderDenies(i) ==
    LET g == email_data.gender_required IN
    /\ g # <<>>
    /\ \/ Lower(g) \in FEMALE_KEYWORDS /\ ProfileGender(i) = Male
       \/ Lower(g) \in MALE_KEYWORDS /\ ProfileGender(i) = Female

\* C20: a dispatch is denied for gender, and unmatch_gender grows by one,
\* exactly when gender_required is present and its lower-cased value is,
\* as a whole, a female keyword while the account is male, or a male keyword
\* while the account is female; otherwise unmatch_gender is unchanged and the
\* dispatch goes on to the next rule.
GenderGate ==
    PastValidation =>
        /\ (d.reason = "gender") <=> GenderDenies(d.id)
        /\ d.reason = "gender" => pc = "returned" /\ ~d.ret
        /\ stats.unmatch_gender =
              d.stats0.unmatch_gender + (IF GenderDenies(d.id) THEN 1 ELSE 0)
        /\ email_data.gender_required = <<>> => "gender" \notin d.seen

\* C20 witness: the female account was denied an event asking for "Pria",
\* after the male account had passed the rule with it.
GenderGateWitness ==
    /\ pc = "returned"
    /\ d.reason = "gender"
    /\ ProfileGender(d.id) = Female
    /\ email_data.gender_required = <<"P", "r", "i", "a">>
    /\ stats.unmatch_gender = 1
    /\ \E a \in DOMAIN results : results[a]

\* The keyword is a substring, letter case apart, of the position with its
\* whitespace collapsed.
KeywordHit(keyword, position) ==
    Contains(Lower(keyword), CollapseWs(Lower(position)))

\* The pattern compiles and matches the lower-cased, collapsed position.
RegexHit(pattern, position) ==
    pattern.valid /\ Contains(pattern.lit, CollapseWs(Lower(position)))

\* C21: is_position_blocked returns a boolean for every block-list: true when
\* a keyword is a case-insensitive substring of the collapsed position or a
\* valid pattern matches it, wherever invalid patterns stand in the list, and
\* false when only invalid patterns could have matched.
BlockedGate ==
    call.fn = "is_position_blocked" =>
        LET blocked == call.args[1]
            position == call.args[2]
            hit == \/ \E k \in 1..Len(blocked.keywords) :
                         KeywordHit(blocked.keywords[k], position)
                   \/ \E k \in 1..Len(blocked.regex_patterns) :
                         RegexHit(blocked.regex_patterns[k], position)
        IN  /\ call.ret \in BOOLEAN
            /\ hit => call.ret
            /\ ~hit => ~call.ret

\* C21 witness: the position is blocked by a valid pattern that stands after
\* an invalid one, and by no keyword.
BlockedGateWitness ==
    /\ call.fn = "is_position_blocked"
    /\ call.ret
    /\ call.args[1].keywords = << <<"x">> >>
    /\ call.args[1].regex_patterns = <<BadRegex, LitRegex(<<"m", "e", "d", "i", "s">>)>>

\* s with every occurrence of the word "nama", in any letter case and not
\* inside a longer word, replaced by name, and the rest as it is.
RECURSIVE ReplaceNama(_, _, _)
ReplaceNama(s, i, name) ==
    IF i > Len(s) THEN <<>>
    ELSE IF /\ i + 3 <= Len(s)
            /\ Lower(SubSeq(s, i, i + 3)) = <<"n", "a", "m", "a">>
            /\ (i = 1 \/ ~IsWord(s[i - 1]))
            /\ (i + 4 > Len(s) \/ ~IsWord(s[i + 4]))
         THEN name \o ReplaceNama(s, i + 4, name)
         ELSE <<s[i]>> \o ReplaceNama(s, i + 1, name)

\* C22: for a subject_email the event supplies, _prepare_subject raises
\* nothing and returns the supplied text with each whole word "nama" replaced
\* by the display name and everything else, unknown {{placeholders}}
\* included, untouched.
SubjectTransform ==
    (call.fn = "_prepare_subject" /\ call.args[1] # <<>>) =>
        call.ret = Returned(ReplaceNama(call.args[1], 1, call.args[3]))

\* The counter of the rule that denied.
DenyCounter(reason) ==
    CASE reason = "gender" -> "unmatch_gender"
      [] reason = "blocked" -> "unrelevan_position"
      [] reason = "duplicate" -> "duplicate"

\* A denied dispatch has added one to the counter of its rule and has
\* changed no other counter.
OneCounterPerDeny ==
    (InDispatch /\ d.reason \in {"gender", "blocked", "duplicate"}) =>
        /\ pc = "returned" /\ ~d.ret
        /\ stats = [d.stats0 EXCEPT ![DenyCounter(d.reason)] = @ + 1]

\* In a step of a dispatch: the rule that denies is the first, in the order
\* gender, blocked position, duplicate, that the event fails; and the step
\* of the existence queries is entered only after the first two rules passed,
\* so that a dispatch they deny returns out of the load step.
FirstDenyWins ==
    LET account_info == CompleteAccountInfo(d.id)
        v == validate_and_extract(email_data)
        gender == GenderMismatch(account_info, v.job_gender)
        blocked == is_position_blocked(account_info.data, v.position)
        denied == d.reason = "none" /\ d'.reason \in {"gender", "blocked", "duplicate"}
    IN  /\ (denied /\ d'.reason = "gender") => gender /\ pc = "load"
        /\ (denied /\ d'.reason = "blocked") => ~gender /\ blocked /\ pc = "load"
        /\ (denied /\ d'.reason = "duplicate") =>
              ~gender /\ ~blocked /\ pc = "dupcheck"
        /\ (pc # "dupcheck" /\ pc' = "dupcheck") => pc = "load" /\ ~gender /\ ~blocked
        /\ (pc = "load" /\ pc' # "load" /\ v.ok /\ d'.seen \cap {"load_error", "not_found"} = {}) =>
              /\ gender => d'.reason = "gender"
              /\ (~gender /\ blocked) => d'.reason = "blocked"

\* C23: the rules are applied in the order gender, blocked position,
\* duplicate, and the first that denies ends the evaluation: a denied
\* dispatch adds one to the counter of that rule and to no other, and when
\* the gender or the blocked-position rule denies, no existence query is made.
RuleOrder ==
    /\ []OneCounterPerDeny
    /\ [][FirstDenyWins]_vars

\* C23 witness: in the second event to a target already sent to, the male
\* account was denied for gender although its position is blocked and its
\* target recorded, and the female account is denied for the blocked position
\* although its target is recorded.
RuleOrderWitness ==
    /\ clock = 2
    /\ pc = "returned"
    /\ d.reason = "blocked"
    /\ ProfileGender(d.id) = Female
    /\ email_data.gender_required # <<>>
    /\ check_already_sent(sent_logs, <<"b">>, AccountEmail(d.id))
    /\ stats.unmatch_gender = 1
    /\ stats.unrelevan_position = 1
    /\ stats.duplicate = 0

\* C24: when send_email_for_account has returned, or was cancelled, no
\* transport connection that _send_smtp opened is left open, whichever way
\* the dispatch ended: message sent, login refused, send refused.
ConnectionReleased ==
    pc \in {"returned", "cancelled", "batch_done", "idle"} => smtp_open = 0

\* C25: once stop() has begun (stopped is set), the loop hands no further
\* message to the handler: not while the stats task is cancelled and
\* awaited, and not before the subscriber is stopped.
NoNewEventsAfterStop ==
    [][app.stopped => Len(sub'.log) = Len(sub.log)]_vars

\* The task of _loop exists and has not ended.
LoopRunning(task) == task \in {"waiting", "handling", "sleeping"}

\* In a step: the task ends only cancelled by stop() or because the shutdown
\* signal is set; the pause after an iteration error is followed by the next
\* iteration; an iteration that gets no data message leaves the task waiting
\* for the next.
LoopContinues ==
    /\ (LoopRunning(sub.task) /\ ~LoopRunning(sub'.task)) =>
          \/ sub'.task = "cancelled" /\ sub'.stop_calls = sub.stop_calls + 1
          \/ sub'.task = "done" /\ app.shutdown_event
    /\ (sub.task = "waiting" /\ sub'.task = "sleeping") =>
          sub'.log = sub.log /\ UNCHANGED <<stats, pc, d>>
    /\ (sub.task = "sleeping" /\ sub'.task # "sleeping") =>
          sub'.task \in {"waiting", "cancelled"}
    /\ sub'.polls # sub.polls => sub'.task = "waiting" /\ sub'.log = sub.log

\* C26: the task of _loop ends only when the shutdown signal is set or the
\* task is cancelled; after an error of an iteration the loop pauses and then
\* goes on; a poll that times out or brings no data message goes on as well.
LoopEndsOnlyOnShutdown ==
    /\ [](sub.task \in {"cancelled", "done"} => app.shutdown_event)
    /\ [][LoopContinues]_vars

\* C26 witness: after a poll that brought nothing and a message that was
\* handled, an iteration failed and the loop pauses, the next message waiting.
LoopEndsOnlyOnShutdownWitness ==
    /\ sub.polls = 1
    /\ sub.task = "sleeping"
    /\ Len(sub.log) = 1
    /\ sub.inbox # <<>>

TeardownCompletes ==
    (app.stopped /\ \E c \in Stoppers : app.stop[c] = "raised") =>
        ~app.redis_client /\ ~app.pool

\* C29: when start() has raised, the bus connection and the store pool it
\* had initialized are closed before main() ends.
StartupFailureReleases ==
    app.main = "failed" => ~app.redis_client /\ ~app.pool

\* C30: whenever the subscriber is listening the store pool exists: a pool
\* that could not be created aborts start().
PoolAvailable ==
    sub.task # "none" => app.pool

\* C31: a dispatch whose event _validate_and_extract rejected has returned
\* false through the validation branch: nothing sent, no sent record
\* inserted, and no counter changed, failed included.
ValidationIsNotAnError ==
    (InDispatch /\ "invalid" \in d.seen) =>
        /\ pc = "returned" /\ ~d.ret
        /\ d.sends = 0 /\ Len(outbox) = d.outbox0
        /\ sent_logs = d.logs0
        /\ stats = d.stats0

\* C32: a call of record_sent_batch that raised has left the table as it
\* found it: none of the rows it inserted before the failure persists.
BatchAtomic ==
    (rec.caller = "direct" /\ rec.result = "raised") => sent_logs = rec.before

====
